---------------------------- MODULE Spec2Model ----------------------------
(***************************************************************************)
(* AltDump: the overlay controller (Electron main process, file            *)
(* electron/preload.cjs from line 292 on), the capture surface (React      *)
(* renderer, unnamed/part_006) and the vault storage with its background   *)
(* enrichment (electron/storage.cjs).                                      *)
(*                                                                         *)
(* Several specifications share the module: Spec is the overlay controller *)
(* with the capture surface and the two IPC directions between them,       *)
(* LiveSpec adds the end of user input and fairness; StoreSpec is the      *)
(* vault (items.json, embeddings.json, blobs) with the enrichment tasks    *)
(* that storage.cjs schedules with setImmediate; EnrichSpec applies the    *)
(* metadata extraction repeatedly to one item.  VaultSpec puts the vault   *)
(* behind the IPC handlers of the main process (notification of the main   *)
(* window, search), VaultLiveSpec adds fairness of the callbacks,          *)
(* StageSpec lets the thumbnail stage fail, FaultSpec lets file            *)
(* operations fail and TornWriteSpec is StoreSpec with writes of           *)
(* items.json that may be cut short.                                       *)
(***************************************************************************)
EXTENDS Integers, Sequences, FiniteSets, TLC

(***************************************************************************)
(* Bounds of the model.                                                    *)
(***************************************************************************)
MaxQueue == 3
MaxDepth == 2
MaxHideTimers == 1
MaxItems == 2
MaxRuns == 2
MaxText == 2
MaxVaultItems == 1

Keys == {"alt", "d"}
DropPayloads == {"ok", "bad", "nofile"}

VARIABLES
  \* ---- main process (preload.cjs:342-355) ----
  overlayState,          \* 'hidden' | 'pressing' | 'latched' | 'saving'
  stateBeforePressing,   \* "null" | 'hidden' | 'latched'
  pressTimer,            \* TRUE while the hold timeout is pending
  overlayVisible,
  isDraggingInOverlay,
  altPhysicallyDown,
  dPhysicallyDown,
  \* ---- preload script of the overlay window (preload.cjs:65) ----
  preloadDragDepth,
  \* ---- renderer (part_006:7-22) ----
  overlayPhase,          \* 'neutral'|'text'|'drop'|'saving'|'confirmation'|'error'
  textNonEmpty,          \* text.trim() is not empty
  isDragging,
  dragDepth,
  showSuccessFeedback,
  hideTimers,            \* pending inner 300 ms timeouts of the auto-hide effect
  \* ---- IPC in flight ----
  r2m,                   \* ipcRenderer.invoke calls not yet handled by main
  m2r,                   \* webContents.send events and invoke replies not yet handled
  \* ---- observers of the environment (no counterpart in the code) ----
  holdElapsed,           \* the hold timeout expired during the chord hold still going on
  dragOpened,            \* the chord hold still going on began in 'hidden' during a drag
  quiet                  \* the user has stopped giving input (LiveSpec only)

ovars == <<overlayState, stateBeforePressing, pressTimer, overlayVisible,
           isDraggingInOverlay, altPhysicallyDown, dPhysicallyDown,
           preloadDragDepth, overlayPhase, textNonEmpty, isDragging, dragDepth,
           showSuccessFeedback, hideTimers, r2m, m2r, holdElapsed, dragOpened,
           quiet>>

\* ---- vault storage (storage.cjs) ----
VARIABLES
  items,                 \* items.json: id -> item record
  embeddings,            \* embeddings.json: id -> embedding record
  blobs,                 \* content-addressed files in the vault directory
  obj,                   \* the item object built at ingest, shared by the tasks
  metaTask,              \* id -> position of the scheduleMetadataExtraction callback
  llmTask,               \* id -> position of the scheduleLLMEnrichment callback
  llmCopy,               \* id -> the {...item} copy the LLM / vision call works on
  nextId,                \* ids handed out so far (uuidv4 never repeats)
  ingestResult           \* outcome of the last addTextItem / addFileItem call

storeVars == <<items, embeddings, blobs, obj, metaTask, llmTask, llmCopy, nextId,
              ingestResult>>

\* ---- extractFileMetadata applied repeatedly to one item (EnrichSpec) ----
VARIABLES
  enrichItem,            \* the item object handed to extractFileMetadata
  enrichFound,           \* whether OCR / parsing of the blob yields text
  enrichRuns,            \* number of runs so far
  enrichFirst            \* the item as it was after the first run

enrichVars == <<enrichItem, enrichFound, enrichRuns, enrichFirst>>

\* ---- what the vault's surroundings do to it (FaultSpec) ----
VARIABLES
  fault,                 \* the operation that fails at present, or "none"
  partialBlobs           \* blobs whose copy into the vault was cut short

envVars == <<fault, partialBlobs>>

\* ---- the main window, the search and the temporary files of dropped ----
\* ---- bytes (preload.cjs IPC handlers)                               ----
VARIABLES
  unannounced,           \* items.json changed and no "items-updated" was sent since
  searchResult,          \* what the last smartSearch returned
  removedSources         \* ids of the items whose source file has been unlinked

uiVars == <<unannounced, searchResult, removedSources>>

vars == <<ovars, storeVars, enrichVars, envVars, uiVars>>

(***************************************************************************)
(* Main process: the overlay state machine.  The functions of the source   *)
(* read and write the module-level variables; here they map a record of    *)
(* those variables to the record after the call.                           *)
(***************************************************************************)
Main == [state    |-> overlayState,
         before   |-> stateBeforePressing,
         timer    |-> pressTimer,
         visible  |-> overlayVisible,
         dragging |-> isDraggingInOverlay]

SetMain(m) ==
  /\ overlayState' = m.state
  /\ stateBeforePressing' = m.before
  /\ pressTimer' = m.timer
  /\ overlayVisible' = m.visible
  /\ isDraggingInOverlay' = m.dragging

showOverlayWindow(m) ==
  IF ~m.visible THEN [m EXCEPT !.visible = TRUE] ELSE m

hideOverlayWindow(m) ==
  IF ~m.dragging /\ m.visible THEN [m EXCEPT !.visible = FALSE] ELSE m

\* setOverlayState that leaves a pending hold timer alone.
setOverlayState_KeepTimer(m, newState) ==
  IF m.state = newState THEN m
  ELSE
    LET m1 == [m EXCEPT !.state = newState] IN
    CASE newState = "hidden" ->
           [(IF ~m1.dragging /\ m1.visible THEN hideOverlayWindow(m1) ELSE m1)
              EXCEPT !.before = "null"]
      [] newState = "pressing" ->
           [(IF ~m1.visible THEN showOverlayWindow(m1) ELSE m1)
              EXCEPT !.before = IF m.state # "pressing" /\ m.state # "saving"
                                THEN m.state ELSE m1.before,
                     !.timer = TRUE]
      [] newState = "latched" ->
           [(IF ~m1.visible THEN showOverlayWindow(m1) ELSE m1)
              EXCEPT !.before = "null"]
      [] newState = "saving" ->
           IF ~m1.visible THEN showOverlayWindow(m1) ELSE m1
      [] OTHER -> m1

setOverlayState(m, newState) ==
  IF m.state = newState THEN m
  ELSE
    LET m1 == [m EXCEPT !.state = newState, !.timer = FALSE] IN
    CASE newState = "hidden" ->
           [(IF ~m1.dragging /\ m1.visible THEN hideOverlayWindow(m1) ELSE m1)
              EXCEPT !.before = "null"]
      [] newState = "pressing" ->
           [(IF ~m1.visible THEN showOverlayWindow(m1) ELSE m1)
              EXCEPT !.before = IF m.state # "pressing" /\ m.state # "saving"
                                THEN m.state ELSE m1.before,
                     !.timer = TRUE]
      [] newState = "latched" ->
           [(IF ~m1.visible THEN showOverlayWindow(m1) ELSE m1)
              EXCEPT !.before = "null"]
      [] newState = "saving" ->
           IF ~m1.visible THEN showOverlayWindow(m1) ELSE m1
      [] OTHER -> m1

\* handleAltDChord without its guard on 'saving'.
handleAltDChord_NoSavingGuard(m) ==
  IF m.dragging THEN setOverlayState(m, "latched")
  ELSE IF m.state = "hidden" THEN setOverlayState(m, "pressing")
  ELSE IF m.state = "latched" THEN setOverlayState(m, "pressing")
  ELSE m

\* handleAltDChord without the context-aware open.
handleAltDChord_NoDragBranch(m) ==
  IF m.state = "saving" THEN m
  ELSE IF m.state = "hidden" THEN setOverlayState(m, "pressing")
  ELSE IF m.state = "latched" THEN setOverlayState(m, "pressing")
  ELSE m

handleAltDChord(m) ==
  IF m.state = "saving" THEN m
  ELSE IF m.dragging THEN setOverlayState(m, "latched")
  ELSE IF m.state = "hidden" /\ m.before = "error" THEN setOverlayState(m, "pressing")
  ELSE IF m.state = "hidden" THEN setOverlayState(m, "pressing")
  ELSE IF m.state = "latched" THEN setOverlayState(m, "pressing")
  ELSE m

\* handleAltDRelease that hides on every release in 'pressing'.
handleAltDRelease_AlwaysHide(m) ==
  IF m.state = "saving" THEN m
  ELSE IF m.state = "pressing" THEN setOverlayState(m, "hidden")
  ELSE m

handleAltDRelease(m) ==
  IF m.state = "saving" THEN m
  ELSE IF m.state = "pressing" THEN
         IF m.before = "hidden" THEN setOverlayState(m, "latched")
         ELSE IF m.before = "latched" THEN setOverlayState(m, "hidden")
         ELSE setOverlayState(m, "hidden")
  ELSE m

isChorded(alt, d) == alt /\ d

(***************************************************************************)
(* Renderer: the state transition helpers of App (part_006:28-90).  out    *)
(* collects the ipcRenderer.invoke calls the helper makes.                 *)
(***************************************************************************)
Rend == [phase    |-> overlayPhase,
         text     |-> textNonEmpty,
         dragging |-> isDragging,
         depth    |-> dragDepth,
         success  |-> showSuccessFeedback,
         out      |-> <<>>]

SetRend(r) ==
  /\ overlayPhase' = r.phase
  /\ textNonEmpty' = r.text
  /\ isDragging' = r.dragging
  /\ dragDepth' = r.depth
  /\ showSuccessFeedback' = r.success
  /\ r2m' = r2m \o r.out

enterTextMode(r) ==
  IF r.phase # "saving" /\ r.phase # "confirmation"
  THEN [r EXCEPT !.phase = "text"] ELSE r

enterDropMode(r) ==
  IF r.phase # "saving" /\ r.phase # "confirmation"
  THEN [r EXCEPT !.phase = "drop"] ELSE r

enterSavingMode(r) == [r EXCEPT !.phase = "saving"]

enterConfirmationMode(r) ==
  [r EXCEPT !.phase = "confirmation", !.success = TRUE, !.text = FALSE,
            !.out = Append(@, "mode_confirmation")]

enterErrorMode(r) ==
  [r EXCEPT !.phase = "error", !.out = Append(@, "mode_error")]

resetToNeutral(r) ==
  [r EXCEPT !.phase = "neutral", !.text = FALSE, !.dragging = FALSE, !.depth = 0]

mainVars == <<overlayState, stateBeforePressing, pressTimer, overlayVisible,
              isDraggingInOverlay>>
keyVars  == <<altPhysicallyDown, dPhysicallyDown>>
rendVars == <<overlayPhase, textNonEmpty, isDragging, dragDepth,
              showSuccessFeedback>>

\* The user acts on the overlay only while it is shown.  The renderer handles
\* an arriving event at once, so no event is waiting when the user acts; the
\* main process may be busy in a save handler (synchronous file I/O), so up
\* to MaxQueue earlier requests may still wait for it.
Room == Len(r2m) < MaxQueue /\ m2r = <<>>

OverlayInput == overlayVisible /\ ~quiet /\ Room

\* The timeouts of the program last 300 ms and more, an IPC message is
\* delivered within a millisecond: a timeout expires only while no message
\* is in flight.
IpcIdle == r2m = <<>> /\ m2r = <<>>

\* Clicks and typing are not possible while the pointer drags something over
\* the overlay.
PointerFree == preloadDragDepth = 0

(***************************************************************************)
(* Keyboard hook (preload.cjs:915-996).  A keydown of a key that is        *)
(* already recorded as down is an OS key-repeat event.                     *)
(***************************************************************************)
KeyDown(k) ==
  LET alt == IF k = "alt" THEN TRUE ELSE altPhysicallyDown
      d   == IF k = "d" THEN TRUE ELSE dPhysicallyDown
  IN /\ altPhysicallyDown' = alt
     /\ dPhysicallyDown' = d
     /\ SetMain(IF alt /\ d THEN handleAltDChord(Main) ELSE Main)
     /\ ~quiet
     /\ dragOpened' = IF alt /\ d
                      THEN overlayState = "hidden" /\ isDraggingInOverlay
                      ELSE dragOpened
     /\ UNCHANGED <<storeVars, enrichVars, envVars, uiVars, preloadDragDepth, rendVars, hideTimers, r2m, m2r, holdElapsed, quiet>>

KeyUp(k) ==
  /\ IF k = "alt" THEN altPhysicallyDown ELSE dPhysicallyDown
  /\ LET wasChordActive == isChorded(altPhysicallyDown, dPhysicallyDown)
     IN /\ altPhysicallyDown' = IF k = "alt" THEN FALSE ELSE altPhysicallyDown
        /\ dPhysicallyDown' = IF k = "d" THEN FALSE ELSE dPhysicallyDown
        /\ SetMain(IF wasChordActive THEN handleAltDRelease(Main) ELSE Main)
  /\ ~quiet
  /\ holdElapsed' = FALSE
  /\ dragOpened' = FALSE
  /\ UNCHANGED <<storeVars, enrichVars, envVars, uiVars, preloadDragDepth, rendVars, hideTimers, r2m, m2r, quiet>>

\* The hold timeout set in setOverlayState('pressing') (preload.cjs:391-395).
PressTimerFire ==
  /\ pressTimer
  /\ IpcIdle
  /\ SetMain(setOverlayState([Main EXCEPT !.timer = FALSE], "latched"))
  /\ holdElapsed' = isChorded(altPhysicallyDown, dPhysicallyDown)
  /\ UNCHANGED <<storeVars, enrichVars, envVars, uiVars, dragOpened, keyVars, preloadDragDepth, rendVars, hideTimers, r2m, m2r, quiet>>

(***************************************************************************)
(* ipcMain handlers.  storage.addTextItem and storage.addFileItem are      *)
(* synchronous, so a save handler runs to its end without interleaving.    *)
(***************************************************************************)
SaveHandler(m, ok, replyOk, replyErr) ==
  LET m1 == setOverlayState(m, "saving") IN
  IF ok
  THEN [main |-> m1,
        sent |-> (IF m1.visible THEN <<"save_success">> ELSE <<>>) \o <<replyOk>>]
  ELSE [main |-> m1, sent |-> <<replyErr>>]

HideOverlayHandler(m) ==
  setOverlayState([m EXCEPT !.dragging = FALSE], "hidden")

SetOverlayDragStateHandler(m, b) == [m EXCEPT !.dragging = b]

SetOverlayModeHandler(m) ==
  IF m.visible THEN <<"mode_change">> ELSE <<>>

MainHandle ==
  /\ r2m # <<>>
  /\ LET msg == Head(r2m)
         res == CASE msg = "save_text"     -> SaveHandler(Main, TRUE, "reply_text_ok", "reply_text_err")
                  [] msg = "save_file_ok"  -> SaveHandler(Main, TRUE, "reply_file_ok", "reply_file_err")
                  [] msg = "save_file_bad" -> SaveHandler(Main, FALSE, "reply_file_ok", "reply_file_err")
                  [] msg = "hide"          -> [main |-> HideOverlayHandler(Main), sent |-> <<>>]
                  [] msg = "drag_true"     -> [main |-> SetOverlayDragStateHandler(Main, TRUE), sent |-> <<>>]
                  [] msg = "drag_false"    -> [main |-> SetOverlayDragStateHandler(Main, FALSE), sent |-> <<>>]
                  [] OTHER                 -> [main |-> Main, sent |-> SetOverlayModeHandler(Main)]
     IN /\ SetMain(res.main)
        /\ m2r' = m2r \o res.sent
        /\ r2m' = Tail(r2m)
        /\ holdElapsed' = (holdElapsed /\ res.main.state = overlayState)
  /\ UNCHANGED <<storeVars, enrichVars, envVars, uiVars, dragOpened, keyVars, preloadDragDepth, rendVars, hideTimers, quiet>>

(***************************************************************************)
(* Renderer: events and replies arriving from the main process.            *)
(***************************************************************************)
OnMessage(r, msg) ==
  CASE msg = "save_success"   -> enterConfirmationMode(r)
    [] msg = "reply_file_ok"  -> enterConfirmationMode(r)
    [] msg = "reply_file_err" -> enterErrorMode(r)
    [] msg = "reply_text_err" -> enterErrorMode(r)
    [] OTHER                  -> r

RendHandle ==
  /\ m2r # <<>>
  /\ SetRend(OnMessage(Rend, Head(m2r)))
  /\ m2r' = Tail(m2r)
  /\ UNCHANGED <<storeVars, enrichVars, envVars, uiVars, dragOpened, mainVars, keyVars, preloadDragDepth, hideTimers, holdElapsed, quiet>>

\* Auto-hide effect, outer 1500 ms timer (part_006:253-271).
FeedbackTimerFire ==
  /\ showSuccessFeedback
  /\ IpcIdle
  /\ hideTimers < MaxHideTimers
  /\ showSuccessFeedback' = FALSE
  /\ hideTimers' = IF overlayPhase = "confirmation" THEN hideTimers + 1 ELSE hideTimers
  /\ UNCHANGED <<storeVars, enrichVars, envVars, uiVars, dragOpened, mainVars, keyVars, preloadDragDepth, overlayPhase, textNonEmpty,
                 isDragging, dragDepth, r2m, m2r, holdElapsed, quiet>>

\* Auto-hide effect, inner 300 ms timer: hideOverlay() then resetToNeutral().
HideTimerFire ==
  /\ hideTimers > 0
  /\ IpcIdle
  /\ hideTimers' = hideTimers - 1
  /\ SetRend(resetToNeutral([Rend EXCEPT !.out = <<"hide">>]))
  /\ UNCHANGED <<storeVars, enrichVars, envVars, uiVars, dragOpened, mainVars, keyVars, preloadDragDepth, m2r, holdElapsed, quiet>>

(***************************************************************************)
(* Renderer: user input on the visible overlay.                            *)
(***************************************************************************)
handleTextChange(r, nonEmpty) ==
  LET r1 == [r EXCEPT !.text = nonEmpty] IN
  IF r.phase = "neutral" /\ nonEmpty THEN enterTextMode(r1) ELSE r1

handleSaveText(r) ==
  IF r.text THEN [enterSavingMode(r) EXCEPT !.out = Append(@, "save_text")] ELSE r

handleCancel(r) ==
  [resetToNeutral(r) EXCEPT !.out = Append(@, "hide")]

handleDragEnter(r) ==
  [enterDropMode([r EXCEPT !.depth = @ + 1])
     EXCEPT !.dragging = TRUE, !.out = Append(@, "drag_true")]

handleDragLeave(r) ==
  IF r.depth - 1 <= 0
  THEN LET r1 == [r EXCEPT !.dragging = FALSE, !.depth = 0]
           r2 == IF r.phase = "drop" THEN resetToNeutral(r1) ELSE r1
       IN [r2 EXCEPT !.out = Append(@, "drag_false")]
  ELSE [r EXCEPT !.depth = @ - 1]

handleDrop(r, payload) ==
  LET r1 == enterSavingMode([r EXCEPT !.depth = 0, !.dragging = FALSE,
                                      !.out = Append(@, "drag_false")])
  IN CASE payload = "ok"  -> [r1 EXCEPT !.out = Append(@, "save_file_ok")]
       [] payload = "bad" -> [r1 EXCEPT !.out = Append(@, "save_file_bad")]
       [] OTHER           -> enterErrorMode(r1)

TypeText ==
  /\ OverlayInput /\ PointerFree
  /\ overlayPhase \notin {"saving", "confirmation"}
  /\ \E b \in BOOLEAN :
       /\ b # textNonEmpty
       /\ SetRend(handleTextChange(Rend, b))
  /\ UNCHANGED <<storeVars, enrichVars, envVars, uiVars, dragOpened, mainVars, keyVars, preloadDragDepth, hideTimers, m2r, holdElapsed, quiet>>

\* Save button (part_006:744-750).
SaveClick ==
  /\ OverlayInput /\ PointerFree
  /\ overlayPhase # "saving" /\ textNonEmpty
  /\ SetRend(handleSaveText(Rend))
  /\ UNCHANGED <<storeVars, enrichVars, envVars, uiVars, dragOpened, mainVars, keyVars, preloadDragDepth, hideTimers, m2r, holdElapsed, quiet>>

\* Ctrl+Enter in the textarea: the textarea's onKeyDown (part_006:693-698)
\* runs handleSaveText, and so does the document listener (part_006:439-448)
\* when the phase is 'text'; both see the state of the same render.
CtrlEnter ==
  /\ OverlayInput /\ PointerFree
  /\ overlayPhase \notin {"saving", "confirmation"}
  /\ LET r1 == handleSaveText(Rend)
         r2 == IF overlayPhase = "text"
               THEN [r1 EXCEPT !.out = @ \o handleSaveText(Rend).out] ELSE r1
     IN SetRend(r2)
  /\ UNCHANGED <<storeVars, enrichVars, envVars, uiVars, dragOpened, mainVars, keyVars, preloadDragDepth, hideTimers, m2r, holdElapsed, quiet>>

CancelClick ==
  /\ OverlayInput /\ PointerFree
  /\ overlayPhase # "saving"
  /\ SetRend(handleCancel(Rend))
  /\ UNCHANGED <<storeVars, enrichVars, envVars, uiVars, dragOpened, mainVars, keyVars, preloadDragDepth, hideTimers, m2r, holdElapsed, quiet>>

\* "Try Again" button of the error view (part_006:779-789).
TryAgainClick ==
  /\ OverlayInput /\ PointerFree
  /\ overlayPhase = "error"
  /\ SetRend(resetToNeutral(Rend))
  /\ UNCHANGED <<storeVars, enrichVars, envVars, uiVars, dragOpened, mainVars, keyVars, preloadDragDepth, hideTimers, m2r, holdElapsed, quiet>>

DragEnter ==
  /\ OverlayInput
  /\ preloadDragDepth < MaxDepth /\ dragDepth < MaxDepth
  /\ preloadDragDepth' = preloadDragDepth + 1
  /\ SetRend(handleDragEnter(Rend))
  /\ UNCHANGED <<storeVars, enrichVars, envVars, uiVars, dragOpened, mainVars, keyVars, hideTimers, m2r, holdElapsed, quiet>>

DragLeave ==
  /\ OverlayInput
  /\ preloadDragDepth > 0
  /\ preloadDragDepth' = IF preloadDragDepth - 1 <= 0 THEN 0 ELSE preloadDragDepth - 1
  /\ SetRend(handleDragLeave(Rend))
  /\ UNCHANGED <<storeVars, enrichVars, envVars, uiVars, dragOpened, mainVars, keyVars, hideTimers, m2r, holdElapsed, quiet>>

Drop ==
  /\ OverlayInput
  /\ preloadDragDepth > 0
  /\ preloadDragDepth' = 0
  /\ \E payload \in DropPayloads : SetRend(handleDrop(Rend, payload))
  /\ UNCHANGED <<storeVars, enrichVars, envVars, uiVars, dragOpened, mainVars, keyVars, hideTimers, m2r, holdElapsed, quiet>>

BaseInit ==
  /\ overlayState = "hidden"
  /\ stateBeforePressing = "null"
  /\ pressTimer = FALSE
  /\ overlayVisible = FALSE
  /\ isDraggingInOverlay = FALSE
  /\ altPhysicallyDown = FALSE
  /\ dPhysicallyDown = FALSE
  /\ preloadDragDepth = 0
  /\ overlayPhase = "neutral"
  /\ textNonEmpty = FALSE
  /\ isDragging = FALSE
  /\ dragDepth = 0
  /\ showSuccessFeedback = FALSE
  /\ hideTimers = 0
  /\ r2m = <<>>
  /\ m2r = <<>>
  /\ holdElapsed = FALSE
  /\ dragOpened = FALSE
  /\ quiet = FALSE
  /\ items = <<>>
  /\ embeddings = <<>>
  /\ blobs = {}
  /\ obj = <<>>
  /\ metaTask = <<>>
  /\ llmTask = <<>>
  /\ llmCopy = <<>>
  /\ nextId = 1
  /\ ingestResult = "none"
  /\ fault = "none"
  /\ partialBlobs = {}
  /\ unannounced = FALSE
  /\ searchResult = <<>>
  /\ removedSources = {}

Init ==
  /\ BaseInit
  /\ enrichItem = [id |-> 1, createdAt |-> 1, type |-> "file",
                   category |-> "documents", hash |-> "doc", content |-> "none",
                   url |-> "none", size |-> 3, searchableBase |-> "report.pdf",
                   extractedText |-> FALSE, thumbnail |-> FALSE,
                   meta |-> {}, text |-> <<>>]
  /\ enrichFound = FALSE
  /\ enrichRuns = 0
  /\ enrichFirst = enrichItem

Next ==
  \/ \E k \in Keys : KeyDown(k)
  \/ \E k \in Keys : KeyUp(k)
  \/ PressTimerFire
  \/ MainHandle
  \/ RendHandle
  \/ FeedbackTimerFire
  \/ HideTimerFire
  \/ TypeText
  \/ SaveClick
  \/ CtrlEnter
  \/ CancelClick
  \/ TryAgainClick
  \/ DragEnter
  \/ DragLeave
  \/ Drop

Spec == Init /\ [][Next]_vars

(***************************************************************************)
(* LiveSpec: the user may stop giving input at any moment; IPC delivery    *)
(* and timers always happen eventually.                                    *)
(***************************************************************************)
GoQuiet ==
  /\ ~quiet
  /\ quiet' = TRUE
  /\ UNCHANGED <<storeVars, enrichVars, envVars, uiVars, dragOpened, mainVars, keyVars, preloadDragDepth, rendVars, hideTimers,
                 r2m, m2r, holdElapsed>>

LiveNext == Next \/ GoQuiet

LiveSpec ==
  /\ Init /\ [][LiveNext]_vars
  /\ WF_vars(MainHandle) /\ WF_vars(RendHandle)
  /\ WF_vars(PressTimerFire) /\ WF_vars(FeedbackTimerFire) /\ WF_vars(HideTimerFire)

TypeOK ==
  /\ overlayState \in {"hidden", "pressing", "latched", "saving"}
  /\ stateBeforePressing \in {"null", "hidden", "latched"}
  /\ overlayPhase \in {"neutral", "text", "drop", "saving", "confirmation", "error"}
  /\ dragDepth \in 0..MaxDepth
  /\ preloadDragDepth \in 0..MaxDepth

(***************************************************************************)
(* Vault storage and background enrichment (storage.cjs).  An item record  *)
(* keeps what the enrichment tasks read and write: meta holds the task     *)
(* whose metadata keys are present in item.metadata, text the task whose   *)
(* output has been appended to item.searchableText, extractedText says     *)
(* whether metadata.extractedText is non-empty.  searchableText is the     *)
(* string the item was created with (searchableBase) followed by the       *)
(* parts that enrichment appended (text).                                  *)
(***************************************************************************)
FileKinds == {"image", "doc"}

\* Paths handed to addFileItem that createFileItem refuses: an empty path, a
\* path that does not exist, a file whose extension is in REJECTED_TYPES.
BadPaths == {"empty", "missing", "rejected"}

\* A file whose extension is neither in FILE_TYPE_MAP nor in REJECTED_TYPES,
\* or that has no extension at all.
OtherPaths == {"unknown"}

\* What a text capture holds: the empty string, some words or a URL.
Texts == {"", "words", "HTTPS://Example.com"}

\* The bytes of a dropped or picked file (fileContent.length).
FileBytes == 3

\* path.basename of the file of each kind.
fileName(kind) ==
  CASE kind = "image" -> "Photo.png"
    [] kind = "doc"   -> "Report.pdf"
    [] OTHER          -> kind

\* String.prototype.toLowerCase that leaves the string as it is.
toLowerCase_Identity(s) == s

\* String.prototype.toLowerCase on the strings of the model.  "Extract" is
\* what OCR, the PDF parser and the caption give, "LLM" what the language or
\* vision model answers.
toLowerCase(s) ==
  CASE s = "HTTPS://Example.com" -> "https://example.com"
    [] s = "Photo.png"           -> "photo.png"
    [] s = "Report.pdf"          -> "report.pdf"
    [] s = "Extract"             -> "extract"
    [] s = "LLM"                 -> "llm"
    [] OTHER                     -> s

\* `${item.searchableText} ${parts}`.trim().toLowerCase(): the parts that
\* were there before and the new one, in lower case.
combined(parts, extra) ==
  [i \in 1..(Len(parts) + 1) |-> toLowerCase(Append(parts, extra)[i])]

\* isURLContent: /^(https?:\/\/|www\.)\S+/i on the trimmed text.
isURLContent(text) == text = "HTTPS://Example.com"

\* detectCategoryFromText: "links" for a URL; a short text without code
\* keywords is an idea.
detectCategoryFromText(text) == IF isURLContent(text) THEN "links" ELSE "ideas"

\* The operations of the surroundings that can be failing: reading
\* items.json, writing it (refused, or cut short so that the file is left
\* truncated), writing embeddings.json, making a thumbnail.
Faults == {"items_read", "items_write", "items_torn", "embeddings_write", "thumbnail"}

\* loadItems: the parsed file, [] when reading or parsing fails.
loadItems == IF fault = "items_read" THEN <<>> ELSE items

\* saveItems: writeFileSync over items.json, errors are logged.  A refused
\* write leaves the file; a write cut short leaves a truncated file, which
\* loadItems reads as [].
saveItems(new) ==
  CASE fault = "items_write" -> items
    [] fault = "items_torn"  -> <<>>
    [] OTHER                 -> new

\* saveEmbeddingsFile: writeFileSync over embeddings.json, errors are logged.
saveEmbeddingsFile(new) == IF fault = "embeddings_write" THEN embeddings ELSE new

\* uuidv4() and new Date() are taken from the counter of the ingests.  A text
\* item has neither metadata.url nor metadata.size.
createTextItem(content) ==
  [id |-> nextId, createdAt |-> nextId, type |-> "text",
   category |-> detectCategoryFromText(content), hash |-> "none",
   content |-> content, url |-> "none", size |-> 0,
   searchableBase |-> toLowerCase(content), extractedText |-> FALSE,
   thumbnail |-> FALSE, meta |-> {}, text |-> <<>>]

\* createLinkItem is exported by storage.cjs; no handler and no storage
\* function calls it.
createLinkItem(url) ==
  [id |-> nextId, createdAt |-> nextId, type |-> "link", category |-> "links",
   hash |-> "none", content |-> "none", url |-> url, size |-> 0,
   searchableBase |-> toLowerCase(url), extractedText |-> FALSE,
   thumbnail |-> FALSE, meta |-> {}, text |-> <<>>]

\* The validation at the head of createFileItem: the error it throws, or "ok".
createFileItemError(path) ==
  CASE path = "empty"    -> "path_required"
    [] path = "missing"  -> "does_not_exist"
    [] path = "rejected" -> "file_rejected"
    [] OTHER             -> "ok"

\* The file name of the blob in the vault: sha256 of the content and the
\* extension of the source file.
vaultFilePath(kind) ==
  [hash |-> kind, ext |-> CASE kind = "image" -> ".png"
                            [] kind = "doc"   -> ".pdf"
                            [] OTHER          -> ""]

\* detectCategoryFromFile gives "documents" to every extension that is not
\* in FILE_TYPE_MAP; the item type is "image" for the images and "file"
\* for the rest.
createFileItem(kind) ==
  [id |-> nextId, createdAt |-> nextId,
   type |-> IF kind = "image" THEN "image" ELSE "file",
   category |-> IF kind = "image" THEN "images" ELSE "documents",
   hash |-> kind, content |-> "none", url |-> "none", size |-> FileBytes,
   searchableBase |-> toLowerCase(fileName(kind)), extractedText |-> FALSE,
   thumbnail |-> FALSE, meta |-> {}, text |-> <<>>]

\* The vector is computed from item.content for text items and from title,
\* filename and metadata.extractedText for the others.
computeItemEmbedding(item) ==
  [type |-> item.type,
   content |-> IF item.type = "text" THEN item.content ELSE "none",
   extractedText |-> item.type # "text" /\ item.extractedText]

updateItemEmbedding(emb, id, item) ==
  [i \in DOMAIN emb \cup {id} |-> IF i = id THEN computeItemEmbedding(item) ELSE emb[i]]

\* extractFileMetadata that gives up at the first stage that fails.
extractFileMetadata_StopAtFailure(item, size, thumb, found) ==
  LET appended == (found /\ item.hash \in FileKinds) \/ item.type = "image" IN
  IF thumb
  THEN [item EXCEPT !.size = size,
                    !.extractedText = found /\ item.hash \in FileKinds,
                    !.thumbnail = item.hash \in FileKinds,
                    !.meta = @ \cup {"extract"},
                    !.searchableBase = IF appended THEN toLowerCase(@) ELSE @,
                    !.text = IF appended THEN combined(@, "Extract") ELSE @]
  ELSE item

\* size: what getFileSize(sourceFilePath) gives, 0 when the file cannot be
\* read; thumb: the thumbnail stage succeeds; found: OCR or document parsing
\* produced text (a stage that fails yields "").  Every stage catches its
\* own errors.  An image always gets a caption, which is appended to
\* searchableText.  A file that is neither an image nor a PDF gets the
\* size only.
extractFileMetadata(item, size, thumb, found) ==
  LET appended == (found /\ item.hash \in FileKinds) \/ item.type = "image" IN
  [item EXCEPT !.size = size,
               !.extractedText = found /\ item.hash \in FileKinds,
               !.thumbnail = thumb /\ item.hash \in FileKinds,
               !.meta = @ \cup {"extract"},
               !.searchableBase = IF appended THEN toLowerCase(@) ELSE @,
               !.text = IF appended THEN combined(@, "Extract") ELSE @]

\* An enrichment that stores the summary of the model as the content.
enrichWithLLM_SummaryAsContent(item, ok) ==
  IF ok /\ item.content # ""
  THEN [item EXCEPT !.content = "LLM", !.meta = @ \cup {"llm"},
                    !.searchableBase = toLowerCase(@),
                    !.text = combined(@, "LLM")]
  ELSE item

\* enrichTextItemWithLLM and enrichImageItemWithVision: on any failure, and
\* for a text item without content, the item passed in is returned as it is.
enrichWithLLM(item, ok) ==
  IF ok /\ item.content # ""
  THEN [item EXCEPT !.meta = @ \cup {"llm"},
                    !.searchableBase = toLowerCase(@),
                    !.text = combined(@, "LLM")]
  ELSE item

\* items[idx] = record, when the id is still in the index.
replaceItem(its, id, item) ==
  IF id \in DOMAIN its THEN [its EXCEPT ![id] = item] ELSE its

Put(f, id, v) == [i \in DOMAIN f \cup {id} |-> IF i = id THEN v ELSE f[i]]

\* A write-back that does not look for the id in the index.
writeBack_WithoutLookup(id, item) ==
  /\ items' = saveItems(Put(loadItems, id, item))
  /\ embeddings' = saveEmbeddingsFile(updateItemEmbedding(embeddings, id, item))

\* The end of both enrichment callbacks: the record is written over the one
\* in items.json and its embedding is refreshed, when the id is found.
writeBack(id, item) ==
  IF id \in DOMAIN loadItems
  THEN /\ items' = saveItems(replaceItem(loadItems, id, item))
       /\ embeddings' = saveEmbeddingsFile(updateItemEmbedding(embeddings, id, item))
  ELSE UNCHANGED <<items, embeddings>>

\* addItem: push, save, embedding, scheduleLLMEnrichment.
addItem(id, item) ==
  /\ items' = saveItems(Put(loadItems, id, item))
  /\ embeddings' = saveEmbeddingsFile(updateItemEmbedding(embeddings, id, item))
  /\ obj' = Put(obj, id, item)
  /\ llmTask' = Put(llmTask, id, "scheduled")
  /\ nextId' = nextId + 1

addTextItem(content) ==
  /\ nextId <= MaxItems
  /\ addItem(nextId, createTextItem(content))
  /\ metaTask' = Put(metaTask, nextId, "none")
  /\ ingestResult' = "ok"
  /\ UNCHANGED <<blobs, llmCopy, ovars, enrichVars, envVars>>

\* addFileItem that names the blob after the item instead of the content.
addFileItem_BlobPerItem(path) ==
  IF createFileItemError(path) # "ok"
  THEN /\ ingestResult' = createFileItemError(path)
       /\ UNCHANGED <<items, embeddings, blobs, obj, metaTask, llmTask, llmCopy,
                      nextId, ovars, enrichVars, envVars>>
  ELSE /\ nextId <= MaxItems
       /\ blobs' = blobs \cup {[hash |-> path, ext |-> nextId]}
       /\ addItem(nextId, createFileItem(path))
       /\ metaTask' = Put(metaTask, nextId, "scheduled")
       /\ ingestResult' = "ok"
       /\ UNCHANGED <<llmCopy, ovars, enrichVars, envVars>>

\* addFileItem that copies the file into the vault before it validates.
addFileItem_CopyBeforeCheck(path) ==
  IF createFileItemError(path) # "ok"
  THEN /\ ingestResult' = createFileItemError(path)
       /\ blobs' = blobs \cup {vaultFilePath(path)}
       /\ UNCHANGED <<items, embeddings, obj, metaTask, llmTask, llmCopy,
                      nextId, ovars, enrichVars, envVars>>
  ELSE /\ nextId <= MaxItems
       /\ blobs' = blobs \cup {vaultFilePath(path)}
       /\ addItem(nextId, createFileItem(path))
       /\ metaTask' = Put(metaTask, nextId, "scheduled")
       /\ ingestResult' = "ok"
       /\ UNCHANGED <<llmCopy, ovars, enrichVars, envVars>>

\* addFileItem: createFileItem validates the path, copies the file into the
\* vault unless the blob exists, schedules the metadata extraction; addItem
\* follows.  A refused path throws before anything is written.
addFileItem(path) ==
  IF createFileItemError(path) # "ok"
  THEN /\ ingestResult' = createFileItemError(path)
       /\ UNCHANGED <<items, embeddings, blobs, obj, metaTask, llmTask, llmCopy,
                      nextId, ovars, enrichVars, envVars>>
  ELSE /\ nextId <= MaxItems
       /\ blobs' = blobs \cup {vaultFilePath(path)}
       /\ addItem(nextId, createFileItem(path))
       /\ metaTask' = Put(metaTask, nextId, "scheduled")
       /\ ingestResult' = "ok"
       /\ UNCHANGED <<llmCopy, ovars, enrichVars, envVars>>

\* The setImmediate callback of scheduleMetadataExtraction starts and waits
\* for the thumbnail, OCR or document parser.
MetadataStart(id) ==
  /\ id \in DOMAIN metaTask /\ metaTask[id] = "scheduled"
  /\ metaTask' = [metaTask EXCEPT ![id] = "running"]
  /\ UNCHANGED <<items, embeddings, blobs, obj, llmTask, llmCopy, nextId, ingestResult, ovars, enrichVars, envVars>>

\* extractFileMetadata returns: the item object is updated in place and
\* written over the record in items.json.  The stages read sourceFilePath,
\* the path that was handed to createFileItem; statSync, sharp, tesseract
\* and the PDF parser fail on a path that is gone, which gives size 0, no
\* thumbnail and no text.
MetadataFinish(id) ==
  /\ id \in DOMAIN metaTask /\ metaTask[id] = "running"
  /\ \E found \in BOOLEAN :
       LET exists == id \notin removedSources
           updatedItem == extractFileMetadata(obj[id], IF exists THEN FileBytes ELSE 0,
                                              exists /\ fault # "thumbnail",
                                              exists /\ found) IN
       /\ obj' = [obj EXCEPT ![id] = updatedItem]
       /\ writeBack(id, updatedItem)
  /\ metaTask' = [metaTask EXCEPT ![id] = "done"]
  /\ UNCHANGED <<blobs, llmTask, llmCopy, nextId, ingestResult, ovars, enrichVars, envVars>>

\* The setImmediate callback of scheduleLLMEnrichment starts; it was queued
\* after the one of scheduleMetadataExtraction.  Text and image items are
\* copied and the copy waits for the model; a 'file' item is written back at
\* once.
LLMStart(id) ==
  /\ id \in DOMAIN llmTask /\ llmTask[id] = "scheduled"
  /\ metaTask[id] # "scheduled"
  /\ IF obj[id].type \in {"text", "image"}
     THEN /\ llmCopy' = Put(llmCopy, id, obj[id])
          /\ llmTask' = [llmTask EXCEPT ![id] = "running"]
          /\ UNCHANGED <<items, embeddings>>
     ELSE /\ writeBack(id, obj[id])
          /\ llmTask' = [llmTask EXCEPT ![id] = "done"]
          /\ UNCHANGED llmCopy
  /\ UNCHANGED <<blobs, obj, metaTask, nextId, ingestResult, ovars, enrichVars, envVars>>

\* The model call returns or fails: the copy is written over the record.
LLMFinish(id) ==
  /\ id \in DOMAIN llmTask /\ llmTask[id] = "running"
  /\ \E ok \in BOOLEAN :
       LET enriched == enrichWithLLM(llmCopy[id], ok) IN
       /\ llmCopy' = [llmCopy EXCEPT ![id] = enriched]
       /\ writeBack(id, enriched)
  /\ llmTask' = [llmTask EXCEPT ![id] = "done"]
  /\ UNCHANGED <<blobs, obj, metaTask, nextId, ingestResult, ovars, enrichVars, envVars>>

\* deleteItem: unlinkSync(item.path) fails on the undefined path and is
\* caught, the record is filtered out of the loaded list, which is saved.
deleteItem(id) ==
  /\ id \in DOMAIN items
  /\ items' = saveItems([i \in DOMAIN loadItems \ {id} |-> loadItems[i]])
  /\ UNCHANGED <<embeddings, blobs, obj, metaTask, llmTask, llmCopy, nextId, ingestResult, ovars, enrichVars, envVars>>

\* smartSearch: every item of the index is returned with a score; the score
\* uses the item's vector when there is one.  When items exist and
\* embeddings.json holds no entry, the vectors of all items are computed and
\* saved first.
smartSearch ==
  LET backfilled == [i \in DOMAIN loadItems |-> computeItemEmbedding(loadItems[i])]
      backfill == DOMAIN loadItems # {} /\ DOMAIN embeddings = {}
      effectiveEmbeddings == IF backfill THEN backfilled ELSE embeddings
  IN /\ embeddings' = IF backfill THEN saveEmbeddingsFile(backfilled) ELSE embeddings
     /\ searchResult' = [i \in DOMAIN loadItems |-> i \in DOMAIN effectiveEmbeddings]
     /\ UNCHANGED <<items, blobs, obj, metaTask, llmTask, llmCopy, nextId, ingestResult,
                    ovars, enrichVars, envVars>>

\* StoreSpec: the storage operations on a text and on files that
\* createFileItem accepts; the refused paths are part of VaultSpec.
StoreNext ==
  \/ addTextItem("words") /\ UNCHANGED uiVars
  \/ \E path \in FileKinds : addFileItem(path) /\ UNCHANGED uiVars
  \/ \E id \in 1..MaxItems : MetadataStart(id) /\ UNCHANGED uiVars
  \/ \E id \in 1..MaxItems : MetadataFinish(id) /\ UNCHANGED uiVars
  \/ \E id \in 1..MaxItems : LLMStart(id) /\ UNCHANGED uiVars
  \/ \E id \in 1..MaxItems : LLMFinish(id) /\ UNCHANGED uiVars
  \/ \E id \in 1..MaxItems : deleteItem(id) /\ UNCHANGED uiVars

StoreSpec == Init /\ [][StoreNext]_vars

(***************************************************************************)
(* The vault behind the IPC handlers of the main process, with the main    *)
(* window that is told about changes and the search.  FaultSpec adds the   *)
(* surroundings: file operations that start and stop failing, and a crash  *)
(* in the middle of a copy into the vault.  VaultLiveSpec is the vault     *)
(* without those, with the enrichment callbacks running whenever they can. *)
(***************************************************************************)
\* What an enrichment step means for the main window: nothing is sent.
NothingSent ==
  /\ unannounced' = (unannounced \/ items' # items)
  /\ UNCHANGED <<searchResult, removedSources>>

\* save-text handler: storage.addTextItem(text), then "items-updated" goes
\* to the main window and the reply to the overlay.
SaveTextIpc(content) ==
  /\ addTextItem(content)
  /\ nextId <= MaxVaultItems
  /\ unannounced' = FALSE
  /\ UNCHANGED <<searchResult, removedSources>>

\* save-file handler: storage.addFileItem(path); "items-updated" is sent
\* unless addFileItem threw.
SaveFileIpc(path) ==
  /\ addFileItem(path)
  /\ createFileItemError(path) = "ok" => nextId <= MaxVaultItems
  /\ unannounced' = IF createFileItemError(path) = "ok" THEN FALSE ELSE unannounced
  /\ UNCHANGED <<searchResult, removedSources>>

\* save-file-blob handler: the bytes are written to a file in the temporary
\* directory, storage.addFileItem(tmpPath) stores it and returns without
\* waiting for anything, 'overlay-save-success' goes to the overlay, the
\* temporary file is unlinked and "items-updated" is sent.  The callbacks
\* that addFileItem queued with setImmediate run after the handler is over.
SaveFileBlobIpc(kind) ==
  /\ addFileItem(kind)
  /\ nextId <= MaxVaultItems
  /\ removedSources' = removedSources \cup {nextId}
  /\ unannounced' = FALSE
  /\ UNCHANGED searchResult

\* delete-item handler: storage.deleteItem(id) and nothing else.
DeleteItemIpc(id) == deleteItem(id) /\ NothingSent

\* smart-search handler.
SmartSearchIpc == smartSearch /\ UNCHANGED <<unannounced, removedSources>>

\* The steps of the two setImmediate callbacks that the program takes by
\* itself.
TaskStep(id) ==
  /\ MetadataStart(id) \/ MetadataFinish(id) \/ LLMStart(id)
  /\ NothingSent

\* The answer of the model server arrives, or the request fails.
ModelAnswers(id) == LLMFinish(id) /\ NothingSent

VaultNext ==
  \/ \E content \in Texts : SaveTextIpc(content)
  \/ \E path \in FileKinds \cup BadPaths \cup OtherPaths : SaveFileIpc(path)
  \/ \E kind \in FileKinds : SaveFileBlobIpc(kind)
  \/ \E id \in 1..MaxItems : DeleteItemIpc(id)
  \/ SmartSearchIpc
  \/ \E id \in 1..MaxItems : TaskStep(id)
  \/ \E id \in 1..MaxItems : ModelAnswers(id)

\* The callbacks are queued with setImmediate and run; extraction works on
\* local files.  The answer of the model server is awaited without a timer
\* (callOllamaChat sets no timeout on its request), so nothing makes
\* ModelAnswers happen.
VaultSpec == Init /\ [][VaultNext]_vars

VaultLiveSpec ==
  /\ VaultSpec
  /\ \A id \in 1..MaxItems : WF_vars(TaskStep(id))

\* A file operation starts or stops failing.
SetFault(f) ==
  /\ f # fault
  /\ fault' = f
  /\ UNCHANGED <<storeVars, ovars, enrichVars, partialBlobs, uiVars>>

\* The process dies while createFileItem copies a file to its hash path
\* with copyFileSync: part of the bytes are there.  The callbacks in memory
\* die with the process; the model lets the crash happen when none waits.
CrashDuringCopy(kind) ==
  /\ vaultFilePath(kind) \notin blobs
  /\ \A id \in DOMAIN llmTask :
       llmTask[id] = "done" /\ metaTask[id] \in {"none", "done"}
  /\ blobs' = blobs \cup {vaultFilePath(kind)}
  /\ partialBlobs' = partialBlobs \cup {vaultFilePath(kind)}
  /\ UNCHANGED <<items, embeddings, obj, metaTask, llmTask, llmCopy, nextId,
                 ingestResult, ovars, enrichVars, fault, uiVars>>

FaultNext ==
  \/ VaultNext
  \/ \E f \in Faults \cup {"none"} : SetFault(f)
  \/ \E kind \in FileKinds : CrashDuringCopy(kind)

FaultSpec == Init /\ [][FaultNext]_vars

\* StageSpec: ingest, enrichment and delete where the only thing that fails
\* is the making of thumbnails (sharp, pdf-poppler or ffmpeg missing or
\* throwing).
StageNext ==
  \/ SaveTextIpc("words")
  \/ \E path \in FileKinds \cup BadPaths : SaveFileIpc(path)
  \/ \E id \in 1..MaxItems : DeleteItemIpc(id)
  \/ \E id \in 1..MaxItems : TaskStep(id)
  \/ \E id \in 1..MaxItems : ModelAnswers(id)
  \/ \E f \in {"thumbnail", "none"} : SetFault(f)

StageSpec == Init /\ [][StageNext]_vars

\* TornWriteSpec: the storage operations on several items while writes of
\* items.json may be cut short.
TornWriteNext ==
  \/ StoreNext
  \/ \E f \in {"items_torn", "none"} : SetFault(f)

TornWriteSpec == Init /\ [][TornWriteNext]_vars

(***************************************************************************)
(* EnrichSpec: extractFileMetadata run again and again on the item object  *)
(* of one file whose blob does not change, so every run finds the same.    *)
(***************************************************************************)
EnrichTasks == {"extract", "llm"}

TextsUpTo(n) == UNION {[1..k -> EnrichTasks] : k \in 0..n}

EnrichInit ==
  /\ BaseInit
  /\ \E kind \in FileKinds, m \in SUBSET EnrichTasks, t \in TextsUpTo(MaxText) :
       enrichItem = [createFileItem(kind) EXCEPT !.meta = m, !.text = t]
  /\ enrichFound \in BOOLEAN
  /\ enrichRuns = 0
  /\ enrichFirst = enrichItem

EnrichRun ==
  /\ enrichRuns < MaxRuns
  /\ enrichItem' = extractFileMetadata(enrichItem, FileBytes, fault # "thumbnail", enrichFound)
  /\ enrichFirst' = IF enrichRuns = 0 THEN enrichItem' ELSE enrichFirst
  /\ enrichRuns' = enrichRuns + 1
  /\ UNCHANGED <<enrichFound, ovars, storeVars, envVars, uiVars>>

EnrichNext == EnrichRun

EnrichSpec == EnrichInit /\ [][EnrichNext]_vars

(***************************************************************************)
(* Claims about the overlay controller.                                    *)
(***************************************************************************)
ChordActive == altPhysicallyDown /\ dPhysicallyDown

KeyStep == \E k \in Keys : KeyDown(k) \/ KeyUp(k)

\* A key-up step that breaks the chord.
ReleaseStep == ChordActive /\ \E k \in Keys : KeyUp(k)

\* C1: while the controller state is 'saving' (save in progress or its
\* confirmation shown), no key-down and no key-up step changes the overlay
\* state, the hold timer, the remembered previous state or the visibility of
\* the overlay window.
C1_ChordIgnoredWhileSaving ==
  [][(overlayState = "saving" /\ KeyStep) => UNCHANGED mainVars]_vars

\* Witness of C1: the controller is saving, a drag is over the overlay and
\* both chord keys are down.
C1_Witness ==
  overlayState = "saving" /\ ChordActive /\ isDraggingInOverlay /\ overlayVisible

\* C2 (as claimed): a step that starts with a drag over the overlay, the drag
\* flag raised and the overlay window shown never ends with the window
\* hidden.
C2_NoHideWhileDragActive ==
  [][(isDraggingInOverlay /\ preloadDragDepth > 0 /\ overlayVisible)
        => overlayVisible']_vars

\* C3 (as claimed): a chord release in 'pressing' leads to 'latched' when the
\* press began in 'hidden', and to 'hidden' with the timer cancelled and the
\* overlay window hidden when the press began in 'latched'.
C3_QuickTapToggles ==
  [][(ReleaseStep /\ overlayState = "pressing") =>
        /\ stateBeforePressing = "hidden" => overlayState' = "latched"
        /\ stateBeforePressing = "latched" =>
             (overlayState' = "hidden" /\ ~pressTimer' /\ ~overlayVisible')]_vars

\* C3 (amended): as C3, except that the window is hidden only when no drag is
\* active in the overlay; with a drag active the state still becomes 'hidden'
\* and the window stays shown.  In 'pressing' the press began in 'hidden' or
\* in 'latched', the timer is pending and the window is shown.
C3_QuickTapTogglesUnlessDragging ==
  [][(ReleaseStep /\ overlayState = "pressing") =>
        /\ stateBeforePressing \in {"hidden", "latched"}
        /\ pressTimer /\ overlayVisible
        /\ ~pressTimer'
        /\ stateBeforePressing = "hidden" =>
             (overlayState' = "latched" /\ overlayVisible')
        /\ stateBeforePressing = "latched" =>
             (overlayState' = "hidden" /\ overlayVisible' = isDraggingInOverlay)]_vars

\* Witness of C3: text was typed into the latched overlay and a chord release
\* has just hidden it: one chord key is still down.
C3_Witness ==
  /\ overlayState = "hidden" /\ ~overlayVisible /\ overlayPhase = "text"
  /\ altPhysicallyDown # dPhysicallyDown /\ r2m = <<>> /\ m2r = <<>>

\* C4 (as claimed): the expiry of the hold timer makes the state 'latched',
\* and when the chord has been held past that expiry its release leaves the
\* state 'latched' with the overlay window shown.
C4_HoldThenReleaseStaysLatched ==
  [][/\ PressTimerFire => overlayState' = "latched"
     /\ (holdElapsed /\ ReleaseStep) =>
           (overlayState' = "latched" /\ overlayVisible')]_vars

\* C5 (as claimed): a key-down of a key already recorded as down changes
\* neither the overlay state nor the hold timer.
C5_KeyRepeatFiltered ==
  [][\A k \in Keys :
       ((IF k = "alt" THEN altPhysicallyDown ELSE dPhysicallyDown) /\ KeyDown(k))
          => (overlayState' = overlayState /\ pressTimer' = pressTimer)]_vars

\* C6 (as claimed): once the capture surface has left the saving, the
\* confirmation and the error view and nothing is in flight any more, the
\* controller is not left in 'saving', where it ignores the chord.
C6_ErrorDismissedLeavesSaving ==
  (/\ overlayPhase \notin {"saving", "confirmation", "error"}
   /\ r2m = <<>> /\ m2r = <<>> /\ hideTimers = 0 /\ ~showSuccessFeedback)
     => overlayState # "saving"

\* C7 (as claimed): a save request that the main process is about to handle
\* with success, made before the user stopped giving input, leads to the
\* controller state 'hidden' with the overlay window hidden.
SaveSucceeds ==
  r2m # <<>> /\ Head(r2m) \in {"save_text", "save_file_ok"}

C7_SuccessLeadsToHidden ==
  (quiet /\ SaveSucceeds) ~> (overlayState = "hidden" /\ ~overlayVisible)

(***************************************************************************)
(* Claims about the vault storage.                                         *)
(***************************************************************************)
Parts(seq) == {seq[i] : i \in DOMAIN seq}

\* C8 (as claimed): metadata extraction and LLM / vision enrichment of one
\* item are never under way at the same time.
C8_OneEnrichmentTaskPerItem ==
  \A id \in DOMAIN metaTask : ~(metaTask[id] = "running" /\ llmTask[id] = "running")

\* C9 (as claimed): a step never removes metadata keys or searchable text
\* from a record that stays in the index.
C9_WriteBackKeepsOtherFields ==
  [][\A id \in DOMAIN items \cap DOMAIN items' :
       /\ items[id].meta \subseteq items'[id].meta
       /\ Parts(items[id].text) \subseteq Parts(items'[id].text)]_vars

\* C10 (as claimed): every embedding record belongs to an item of the index.
C10_EmbeddingsBelongToItems ==
  \A id \in DOMAIN embeddings : id \in DOMAIN items
\* C11 (as claimed): every blob of the vault is referenced by the hash of an
\* item of the index, so the blob is gone once its last item is deleted.
C11_BlobsAreReferenced ==
  \A b \in blobs : \E id \in DOMAIN items : items[id].hash = b.hash

\* C12 (as claimed): the step of an ingest that hands out a new id ends
\* with the item in the index, with the embedding computed from that record
\* in the semantic index, with no enrichment output in the record and with
\* the enrichment callbacks of the item still waiting.
C12_IngestReturnsBeforeEnrichment ==
  [][(nextId' = nextId + 1) =>
        /\ nextId \in DOMAIN items' /\ nextId \in DOMAIN embeddings'
        /\ embeddings'[nextId] = computeItemEmbedding(items'[nextId])
        /\ items'[nextId].meta = {} /\ items'[nextId].text = <<>>
        /\ llmTask'[nextId] = "scheduled"
        /\ metaTask'[nextId] \in {"scheduled", "none"}
        /\ ingestResult' = "ok"]_vars

\* C13: the ingests so far produced as many items as ids were handed out,
\* and for every content the vault holds exactly one blob when some item was
\* ingested from it and none otherwise.
C13_OneBlobPerContent ==
  /\ Cardinality(DOMAIN obj) = nextId - 1
  /\ \A h \in FileKinds :
       Cardinality({b \in blobs : b.hash = h}) =
         IF \E id \in DOMAIN obj : obj[id].hash = h THEN 1 ELSE 0

\* Witness of C13: two items of the index were ingested from the same file.
C13_Witness ==
  \E id1, id2 \in DOMAIN items :
    id1 # id2 /\ items[id1].hash = items[id2].hash /\ items[id1].hash \in FileKinds

\* C14: an addFileItem call with a path that createFileItem refuses reports
\* the reason and leaves the vault, the item index and the semantic index as
\* they were.
C14_RejectedIngestChangesNothing ==
  [][\A path \in BadPaths :
       addFileItem(path) =>
          /\ ingestResult' = createFileItemError(path)
          /\ UNCHANGED <<items, embeddings, blobs>>]_vars

\* Witness of C14: a file of a rejected type was refused while the vault
\* already held an item.
C14_Witness ==
  ingestResult = "file_rejected" /\ DOMAIN items # {} /\ blobs # {}
(***************************************************************************)
(* Further claims about the overlay controller.                            *)
(***************************************************************************)
\* A key-down step after which both chord keys are down.
ChordDownStep ==
  (\E k \in Keys : KeyDown(k)) /\ altPhysicallyDown' /\ dPhysicallyDown'

\* C15 (as claimed): the handling of a save-file request whose file storage
\* refuses (nonexistent, rejected type) leaves the controller state as it was.
C15_InvalidPayloadKeepsState ==
  [][(r2m # <<>> /\ Head(r2m) = "save_file_bad" /\ MainHandle)
        => overlayState' = overlayState]_vars

\* C16 (as claimed): the key-up that breaks the chord does not act at once:
\* the step of the key-up itself leaves the overlay state, the hold timer and
\* the overlay window as they were.
C16_KeyUpDebounced ==
  [][ReleaseStep =>
        (overlayState' = overlayState /\ pressTimer' = pressTimer
           /\ overlayVisible' = overlayVisible)]_vars

\* C17 (as claimed): when the overlay was hidden with the error view shown,
\* the next chord activation moves the controller to 'pressing' and tells the
\* capture surface to open in text mode.
C17_ReopenInTextAfterError ==
  [][(ChordDownStep /\ overlayState = "hidden" /\ overlayPhase = "error"
        /\ ~isDraggingInOverlay /\ r2m = <<>> /\ m2r = <<>>)
        => (overlayState' = "pressing"
              /\ (overlayPhase' = "text" \/ m2r' = <<"mode_text">>))]_vars

\* C18: a chord activation in 'hidden' while a drag is over the overlay leads
\* to 'latched' at once, with the overlay window shown and no hold timer.
C18_DragOpensLatched ==
  [][(ChordDownStep /\ overlayState = "hidden" /\ isDraggingInOverlay)
        => (overlayState' = "latched" /\ ~pressTimer' /\ overlayVisible')]_vars

\* Witness of C18: the chord that is still held found the controller in
\* 'hidden' with a drag over the overlay, and the controller is latched with
\* no hold timer pending.
C18_Witness ==
  /\ dragOpened /\ overlayState = "latched" /\ ChordActive
  /\ isDraggingInOverlay /\ ~pressTimer /\ overlayVisible

\* C19 (as claimed): the depth counter of the capture surface is never
\* negative, it is zero exactly when as many drag-leave as drag-enter events
\* arrived or a drop did, and the drag flag is raised exactly while it is
\* positive.
C19_DepthTracksDrag ==
  /\ dragDepth >= 0
  /\ (dragDepth = 0) <=> (preloadDragDepth = 0)
  /\ isDragging <=> (dragDepth > 0)

\* C21: when the metadata extraction of an item returns, whether or not the
\* thumbnail stage failed and whether or not OCR / parsing gave text, the
\* task is over, the record has the metadata of the run, only the thumbnail
\* depends on the failure of the thumbnail stage (the other outputs are
\* those of a run whose thumbnail stage works), and the record and its
\* embedding are written back when the item is still in the index.
C21_StageFailureIsContained ==
  [][\A id \in 1..MaxItems :
       MetadataFinish(id) =>
          /\ metaTask'[id] = "done"
          /\ "extract" \in obj'[id].meta
          /\ obj'[id].thumbnail = (fault # "thumbnail" /\ obj[id].hash \in FileKinds)
          /\ \E found \in BOOLEAN :
               obj'[id] = [extractFileMetadata(obj[id], FileBytes, TRUE, found)
                             EXCEPT !.thumbnail = obj'[id].thumbnail]
          /\ id \in DOMAIN items =>
               /\ items'[id] = obj'[id]
               /\ embeddings'[id] = computeItemEmbedding(obj'[id])]_vars

\* Witness of C21: the thumbnail of an item failed while thumbnails were
\* failing, its text was extracted all the same, and the record and the
\* embedding in the two indexes have that text.
C21_Witness ==
  \E id \in DOMAIN items :
    /\ fault = "thumbnail" /\ metaTask[id] = "done"
    /\ ~items[id].thumbnail /\ items[id].extractedText
    /\ "extract" \in items[id].meta
    /\ id \in DOMAIN embeddings /\ embeddings[id].extractedText

\* C22 (as claimed): both enrichment tasks of every ingested item come to
\* an end.
C22_EveryTaskEnds ==
  \A id \in 1..MaxItems :
    (id \in DOMAIN llmTask) ~>
       (/\ id \in DOMAIN llmTask
        /\ llmTask[id] = "done" /\ metaTask[id] \in {"none", "done"})

\* The parts of searchableText that the vector of an embedding record was
\* computed from: the extracted text when the record has it, never the
\* caption or the output of the LLM.
EmbeddedParts(e) == IF e.extractedText THEN {"extract"} ELSE {}

\* C23 (as claimed): once both enrichment tasks of an item are over, its
\* embedding is computed from the parts its searchableText has.
C23_EmbeddingOfSearchableText ==
  \A id \in DOMAIN items \cap DOMAIN embeddings :
    (llmTask[id] = "done" /\ metaTask[id] \in {"none", "done"}) =>
       EmbeddedParts(embeddings[id]) = Parts(items[id].text)

\* C24 (as claimed): a search leaves items.json and embeddings.json as they
\* are.
C24_SearchWritesNothing ==
  [][SmartSearchIpc => UNCHANGED <<items, embeddings>>]_vars

\* C25 (as claimed): whenever items.json has been changed, the main window
\* is sent "items-updated" at that moment or later.
C25_ChangeIsAnnounced ==
  unannounced ~> ~unannounced

\* C26 (as claimed): no item of the index has a hash whose blob in the
\* vault holds only part of the bytes.
C26_NoPartialBlobVisible ==
  \A id \in DOMAIN items :
    items[id].hash # "none" => vaultFilePath(items[id].hash) \notin partialBlobs

\* C27 (as claimed): a step removes an item from the index only when it is
\* the deletion of that item.
C27_ItemsNeverDisappear ==
  [][\A id \in DOMAIN items : id \in DOMAIN items' \/ DeleteItemIpc(id)]_vars

\* C28 (as claimed): an ingest that hands out a new id and reports success
\* has persisted the item.
C28_ReportedSavedIsPersisted ==
  [][(nextId' = nextId + 1 /\ ingestResult' = "ok") => nextId \in DOMAIN items']_vars

\* C29 (as claimed): the ingest of a file whose extension is on no list is
\* refused as file_rejected and stores nothing.
C29_UnknownExtensionRejected ==
  [][\A path \in OtherPaths :
       SaveFileIpc(path) =>
          /\ ingestResult' = "file_rejected"
          /\ UNCHANGED <<items, embeddings, blobs>>]_vars

\* C30 (as claimed): the ingest of an empty text is refused as
\* invalid_input and writes neither an item nor an embedding.
C30_EmptyTextRefused ==
  [][SaveTextIpc("") =>
        /\ ingestResult' = "invalid_input"
        /\ UNCHANGED <<items, embeddings>>]_vars

(***************************************************************************)
(* Claims about saves started from the overlay, the window and the timer.  *)
(***************************************************************************)
\* The requests that make the main process ingest something.
SaveRequests == {"save_text", "save_file_ok"}

\* C34 (as claimed): while the controller is in 'saving' the main process
\* takes up no further save request, so no second ingest begins.
C34_OneSaveInFlight ==
  [][(overlayState = "saving" /\ r2m # <<>> /\ Head(r2m) \in SaveRequests)
        => ~MainHandle]_vars

C36_WindowFollowsState ==
  /\ (overlayState = "hidden" /\ ~isDraggingInOverlay) => ~overlayVisible
  /\ overlayState \in {"pressing", "latched", "saving"} => overlayVisible

\* C40: the hold timer is pending exactly in 'pressing', and its expiry
\* finds the controller in 'pressing' and leaves it in 'latched' with no
\* timer pending.
C40_TimerOnlyWhilePressing ==
  /\ [](pressTimer <=> overlayState = "pressing")
  /\ [][PressTimerFire =>
          (overlayState = "pressing" /\ overlayState' = "latched" /\ ~pressTimer')]_vars

\* Witness of C40: the timer expired while the chord was held; the
\* controller is latched, the window is shown and no timer is pending.
C40_Witness ==
  holdElapsed /\ ChordActive /\ overlayState = "latched" /\ ~pressTimer /\ overlayVisible

(***************************************************************************)
(* Claims about the kinds of items and about what enrichment may change.   *)
(***************************************************************************)
\* C31 (as claimed): the save of a text that is a URL stores an item of
\* type link, of category links, whose metadata.url is the text.
C31_UrlTextBecomesLink ==
  [][\A content \in Texts :
       (isURLContent(content) /\ SaveTextIpc(content)) =>
          /\ nextId \in DOMAIN items'
          /\ items'[nextId].type = "link"
          /\ items'[nextId].category = "links"
          /\ items'[nextId].url = content]_vars

\* C32: no step changes the id, the type, the content, the hash or the
\* creation time of a record that stays in the index, and every record is
\* filed under its own id.
C32_EnrichmentKeepsIdentity ==
  [][\A id \in DOMAIN items \cap DOMAIN items' :
       /\ items'[id].id = id /\ items[id].id = id
       /\ items'[id].type = items[id].type
       /\ items'[id].content = items[id].content
       /\ items'[id].hash = items[id].hash
       /\ items'[id].createdAt = items[id].createdAt]_vars

\* Witness of C32: the record of an image in the index has the output of
\* the metadata extraction and of the vision model, and is still the image
\* it was.
C32_Witness ==
  \E id \in DOMAIN items :
    /\ {"extract", "llm"} \subseteq items[id].meta
    /\ items[id].id = id /\ items[id].type = "image" /\ items[id].hash = "image"
    /\ items[id].content = "none" /\ items[id].createdAt = id

\* The strings of the model that have an uppercase character.
WithUppercase == {"HTTPS://Example.com", "Photo.png", "Report.pdf", "Extract", "LLM"}

\* C33: the searchableText of every record in the index, the string it was
\* created with and every part appended since, has no uppercase character.
C33_SearchableTextIsLowerCase ==
  \A id \in DOMAIN items :
    /\ items[id].searchableBase \notin WithUppercase
    /\ \A i \in DOMAIN items[id].text : items[id].text[i] \notin WithUppercase

\* Witness of C33: a record created from a file whose name has an uppercase
\* letter, with extracted text and the answer of the vision model appended.
C33_Witness ==
  \E id \in DOMAIN items :
    /\ items[id].searchableBase = "photo.png"
    /\ Parts(items[id].text) = {"extract", "llm"}

(***************************************************************************)
(* Claims about enrichment that completes late.                            *)
(***************************************************************************)
\* A step in which an enrichment callback of the item comes to its
\* write-back.
EnrichmentCompletes(id) ==
  \/ MetadataFinish(id)
  \/ LLMFinish(id)
  \/ LLMStart(id) /\ llmTask'[id] = "done"

\* C37: when an enrichment callback of an item that is no longer in the
\* index completes, the item is not in the index afterwards and
\* embeddings.json is left as it was.
C37_DeletedItemStaysDeleted ==
  [][\A id \in 1..MaxItems :
       (EnrichmentCompletes(id) /\ id \notin DOMAIN items) =>
          (id \notin DOMAIN items' /\ embeddings' = embeddings)]_vars

\* Witness of C37: both callbacks of a deleted document are over, the
\* extraction found text, and the embedding that was left behind is still
\* the one without that text: the extraction completed after the delete.
C37_Witness ==
  \E id \in DOMAIN obj \ DOMAIN items :
    /\ obj[id].type = "file" /\ metaTask[id] = "done" /\ llmTask[id] = "done"
    /\ obj[id].extractedText
    /\ id \in DOMAIN embeddings /\ ~embeddings[id].extractedText

\* C39 (as claimed): the step in which an enrichment callback of one item
\* comes to its write-back leaves every other item of the index in the
\* index with the record it had, and brings no other item back.
C39_WriteBackLeavesOthers ==
  [][\A id \in 1..MaxItems :
       EnrichmentCompletes(id) =>
          \A j \in (DOMAIN items \cup DOMAIN items') \ {id} :
             j \in DOMAIN items /\ j \in DOMAIN items' /\ items'[j] = items[j]]_vars

\* C38 (as claimed): when the metadata extraction of an item returns, the
\* file it read has not been removed, and the record has the size of the
\* stored blob and, for an image or a PDF, a thumbnail.
C38_SourceReadBeforeRemoval ==
  [][\A id \in 1..MaxItems :
       MetadataFinish(id) =>
          /\ id \notin removedSources
          /\ obj'[id].size = FileBytes
          /\ obj[id].hash \in FileKinds => obj'[id].thumbnail]_vars

(***************************************************************************)
(* Claims about enrichment as a function.                                  *)
(***************************************************************************)
\* C20 (as claimed): after a second run of the metadata extraction on the
\* same blob the item has the metadata and the searchable text it had after
\* the first run.
C20_EnrichmentIdempotent ==
  enrichRuns >= 2 =>
    /\ enrichItem.meta = enrichFirst.meta
    /\ enrichItem.extractedText = enrichFirst.extractedText
    /\ enrichItem.text = enrichFirst.text

=============================================================================
